---- MODULE Spec2Model ----
(***************************************************************************)
(* Model of asyncOperations.js: three styles of asynchronous file reading  *)
(* (callback, promise, async/await), a sequential multi-file reader and    *)
(* the timer-driven driver, run on Node's single-threaded event loop.      *)
(*                                                                         *)
(* A JavaScript string is a sequence of one-character strings.  A step of  *)
(* the model is one event-loop job: the synchronous start of main, a timer *)
(* callback, the completion of a file read together with the promise       *)
(* reactions it triggers, or the resumption of the timer callback after an *)
(* await.                                                                  *)
(***************************************************************************)
EXTENDS Bags, FiniteSets, Integers, Sequences, TLC

VARIABLES
    disk,        \* the file system: file name -> [exists, content]
    timers,      \* delays of the setTimeout timers that have not fired yet
    inflight,    \* file reads that were started and have not completed
    console,     \* bag of the lines written to console.log / console.error
    calls,       \* history: bag of the reads started, by reader
    delivered,   \* history: bag of what each reader handed to its caller
    unhandled,   \* errors that reached no handler (uncaught / unhandled rejection)
    pc,          \* position of main, of each demonstrator and of the 2000 ms callback
    fileList,    \* readMultipleFilesSequentially: its argument
    results,     \* readMultipleFilesSequentially: const results
    i            \* readMultipleFilesSequentially: let i

vars == <<disk, timers, inflight, console, calls, delivered, unhandled, pc,
          fileList, results, i>>

----------------------------------------------------------------------------
(* Bounds of the model *)

MaxContentLen == 61      \* longest file content, one past the preview length
MaxListLen == 3          \* longest list handed to the sequential reader alone

----------------------------------------------------------------------------
(* Program constants *)

DelayCallbacks == 100
DelayPromises == 1000
DelayAsyncAwait == 2000
DemoPreviewLen == 50
SeqPreviewLen == 60

files == <<"file1.txt", "file2.txt", "file3.txt">>

FileNames == {files[k] : k \in DOMAIN files}

Ellipsis == <<".", ".", ".">>

----------------------------------------------------------------------------
(* File contents and the file system *)

Min(a, b) == IF a < b THEN a ELSE b

Alphabet == <<"a", "b", "c", "d", "e", "f", "g">>

Text(n) == [k \in 1..n |-> Alphabet[((k - 1) % Len(Alphabet)) + 1]]

HelloWorld == <<"h", "e", "l", "l", "o", " ", "w", "o", "r", "l", "d">>

Contents == {<<>>, HelloWorld, Text(SeqPreviewLen)}
            \cup {Text(n) : n \in (SeqPreviewLen + 1)..MaxContentLen}

Missing == [exists |-> FALSE, content |-> <<>>]

File(c) == [exists |-> TRUE, content |-> c]

DiskValues == {Missing} \cup {File(c) : c \in Contents}

(* JavaScript values that travel through callbacks and promises *)
Null == [type |-> "null", chars |-> <<>>]
Undefined == [type |-> "undefined", chars |-> <<>>]
Str(s) == [type |-> "string", chars |-> s]
Error(code, path) == [type |-> "error", chars |-> <<code, path>>]

Message(err) == err.chars

(* fs.readFile(filename, 'utf8'): the content, or an ENOENT error *)
ReadFile(filename) ==
    IF disk[filename].exists
    THEN [ok |-> TRUE, data |-> Str(disk[filename].content), err |-> Null]
    ELSE [ok |-> FALSE, data |-> Undefined, err |-> Error("ENOENT", filename)]

(* String.prototype.substring(start, end) for 0 <= start <= end *)
Substring(s, start, end) == SubSeq(s, start + 1, Min(end, Len(s)))

----------------------------------------------------------------------------
(* Console, histories *)

Line(tag, file, text, n) == [tag |-> tag, file |-> file, text |-> text, n |-> n]

Msg(tag) == Line(tag, "", <<>>, 0)

Range(s) == {s[k] : k \in DOMAIN s}

BagOfSeq(s) == [e \in Range(s) |-> Cardinality({k \in DOMAIN s : s[k] = e})]

RECURSIVE Flatten(_)
Flatten(ss) == IF ss = <<>> THEN <<>> ELSE Head(ss) \o Flatten(Tail(ss))

Count(bag, e) == IF e \in DOMAIN bag THEN bag[e] ELSE 0

Read(reader, file, idx, cont) ==
    [reader |-> reader, file |-> file, idx |-> idx, cont |-> cont]

Call(r) == [reader |-> r.reader, file |-> r.file, idx |-> r.idx]

Delivery(reader, file, channel, err, data) ==
    [reader |-> reader, file |-> file, channel |-> channel, err |-> err, data |-> data]

Procs == {"main", "cb", "pr", "aa", "seq", "t2000"}

(* The microtask queue is drained before the next timer or I/O callback *)
MicrotasksEmpty == pc["t2000"] \notin {"afterAA", "afterSeq"}

----------------------------------------------------------------------------
(* 1. Callback-based approach *)

Truthy(v) == v.type \notin {"null", "undefined"} /\ ~(v.type = "string" /\ v.chars = <<>>)


(* The calls readFileWithCallback makes to its callback once the read is     *)
(* over, in order, each as the pair <<err, data>>.                           *)
readFileWithCallback(filename) ==
    LET o == ReadFile(filename)
    IN  IF ~o.ok THEN << <<o.err, Null>> >> ELSE << <<Null, o.data>> >>

CallbackStartLine(filename) == Line("1. CALLBACK: Reading", filename, <<>>, 0)

DemoPreview(data) == Substring(data.chars, 0, DemoPreviewLen) \o Ellipsis


(* Variant: the timers fire in any order *)
TimerReady_AnyOrder(delay) == delay \in timers

(* Timers set in the same tick fire in the order of their delays *)
TimerReady(delay) == delay \in timers /\ \A d \in timers : delay <= d

demonstrateCallbacks ==
    /\ MicrotasksEmpty
    /\ TimerReady(DelayCallbacks)
    /\ timers' = timers \ {DelayCallbacks}
    /\ LET r == Read("callback", files[1], 1, "cb1")
       IN  /\ inflight' = inflight \cup {r}
           /\ calls' = calls (+) SetToBag({Call(r)})
    /\ console' = console (+) BagOfSeq(<<Msg("DEMONSTRATING CALLBACK-BASED APPROACH"),
                                         CallbackStartLine(files[1])>>)
    /\ pc' = [pc EXCEPT !["cb"] = "running"]
    /\ UNCHANGED <<disk, delivered, unhandled, fileList, results, i>>

(* The callback given for file1.txt: what one call of it logs and starts *)
Callback1Lines(a) ==
    IF Truthy(a[1])
    THEN <<Line("Callback Error:", "", Message(a[1]), 0)>>
    ELSE <<Line("Callback Success - File 1 content preview:", "", DemoPreview(a[2]), 0),
           CallbackStartLine(files[2])>>


(* Variant: no `return` after logging the error of file1.txt *)
Callback1Reads_NoReturn(a) == {Read("callback", files[2], 2, "cb2")}

Callback1Reads(a) ==
    IF Truthy(a[1]) THEN {} ELSE {Read("callback", files[2], 2, "cb2")}

Callback2Lines(a) ==
    IF Truthy(a[1])
    THEN <<Line("Callback Error:", "", Message(a[1]), 0)>>
    ELSE <<Line("Callback Success - File 2 content preview:", "", DemoPreview(a[2]), 0)>>

CallbackDeliveries(r, invs) ==
    BagOfSeq([k \in DOMAIN invs |->
                 Delivery("callback", r.file, "callback", invs[k][1], invs[k][2])])

Callback1(r) ==
    /\ MicrotasksEmpty
    /\ r \in inflight
    /\ r.cont = "cb1"
    /\ LET invs == readFileWithCallback(r.file)
           started == UNION {Callback1Reads(invs[k]) : k \in DOMAIN invs}
       IN  /\ delivered' = delivered (+) CallbackDeliveries(r, invs)
           /\ console' = console
                  (+) BagOfSeq(Flatten([k \in DOMAIN invs |-> Callback1Lines(invs[k])]))
           /\ inflight' = (inflight \ {r}) \cup started
           /\ calls' = calls (+) SetToBag({Call(n) : n \in started})
           /\ pc' = [pc EXCEPT !["cb"] = IF started = {} THEN "done" ELSE "running"]
    /\ UNCHANGED <<disk, timers, unhandled, fileList, results, i>>

Callback2(r) ==
    /\ MicrotasksEmpty
    /\ r \in inflight
    /\ r.cont = "cb2"
    /\ LET invs == readFileWithCallback(r.file)
       IN  /\ delivered' = delivered (+) CallbackDeliveries(r, invs)
           /\ console' = console
                  (+) BagOfSeq(Flatten([k \in DOMAIN invs |-> Callback2Lines(invs[k])]))
    /\ inflight' = inflight \ {r}
    /\ pc' = [pc EXCEPT !["cb"] = "done"]
    /\ UNCHANGED <<disk, timers, calls, unhandled, fileList, results, i>>

----------------------------------------------------------------------------
(* 2. Promise-based approach *)

(* How the promise returned by readFileWithPromises settles, and what its   *)
(* two reactions log.                                                       *)
readFileWithPromises(filename) ==
    LET o == ReadFile(filename)
    IN  IF o.ok
        THEN [state |-> "fulfilled", value |-> o.data,
              lines |-> <<Line("Promise resolved for", filename, <<>>, 0)>>]
        ELSE [state |-> "rejected", value |-> o.err,
              lines |-> <<Line("Promise rejected for", filename, Message(o.err), 0)>>]

PromiseStartLine(filename) == Line("2. PROMISE: Reading", filename, <<>>, 0)


(* Variant: the chain without its final .catch *)
PromiseChain_NoCatch == <<"then", "then", "then">>

(* The reactions attached in demonstratePromises, in order *)
PromiseChain == <<"then", "then", "then", "catch">>

(* A rejection of the k-th read enters the chain at its k-th reaction *)
PromiseCaught(k) == \E j \in k..Len(PromiseChain) : PromiseChain[j] = "catch"

Settlement(reader, file, s) ==
    IF s.state = "fulfilled"
    THEN Delivery(reader, file, "fulfilled", Undefined, s.value)
    ELSE Delivery(reader, file, "rejected", s.value, Undefined)

demonstratePromises ==
    /\ MicrotasksEmpty
    /\ TimerReady(DelayPromises)
    /\ timers' = timers \ {DelayPromises}
    /\ LET r == Read("promise", files[1], 1, "pr")
       IN  /\ inflight' = inflight \cup {r}
           /\ calls' = calls (+) SetToBag({Call(r)})
    /\ console' = console (+) BagOfSeq(<<Msg("DEMONSTRATING PROMISE-BASED APPROACH"),
                                         PromiseStartLine(files[1])>>)
    /\ pc' = [pc EXCEPT !["pr"] = "running"]
    /\ UNCHANGED <<disk, delivered, unhandled, fileList, results, i>>

(* The k-th read of the chain settles and the chain's reactions run *)
PromiseReaction(r) ==
    /\ MicrotasksEmpty
    /\ r \in inflight
    /\ r.cont = "pr"
    /\ LET s == readFileWithPromises(r.file)
           k == r.idx
           more == s.state = "fulfilled" /\ k < Len(files)
           next == Read("promise", files[k + 1], k + 1, "pr")
           own == IF s.state = "fulfilled"
                  THEN <<Line("Promise - File preview:", "", DemoPreview(s.value), k)>>
                       \o (IF more THEN <<PromiseStartLine(files[k + 1])>>
                           ELSE <<Msg("All promises completed successfully!")>>)
                  ELSE IF PromiseCaught(k)
                       THEN <<Line("Promise chain error:", "", Message(s.value), 0)>>
                       ELSE <<>>
       IN  /\ delivered' = delivered (+) SetToBag({Settlement("promise", r.file, s)})
           /\ console' = console (+) BagOfSeq(s.lines \o own)
           /\ inflight' = (inflight \ {r}) \cup (IF more THEN {next} ELSE {})
           /\ calls' = IF more THEN calls (+) SetToBag({Call(next)}) ELSE calls
           /\ unhandled' = IF s.state = "rejected" /\ ~PromiseCaught(k)
                           THEN unhandled \cup {s.value} ELSE unhandled
           /\ pc' = [pc EXCEPT !["pr"] = IF more THEN "running" ELSE "done"]
    /\ UNCHANGED <<disk, timers, fileList, results, i>>

----------------------------------------------------------------------------
(* 3. Async/await approach *)


(* Variant: readFileWithAsyncAwait without `return data` *)
readFileWithAsyncAwait_NoReturn(filename) ==
    LET o == ReadFile(filename)
    IN  IF o.ok
        THEN [state |-> "fulfilled", value |-> Undefined,
              lines |-> <<Line("Async/await completed for", filename, <<>>, 0)>>]
        ELSE [state |-> "rejected", value |-> o.err,
              lines |-> <<Line("Async/await error for", filename, Message(o.err), 0)>>]

(* How the promise of the async function readFileWithAsyncAwait settles,    *)
(* and what the function logs before it returns or rethrows.                *)
readFileWithAsyncAwait(filename) ==
    LET o == ReadFile(filename)
    IN  IF o.ok
        THEN [state |-> "fulfilled", value |-> o.data,
              lines |-> <<Line("Async/await completed for", filename, <<>>, 0)>>]
        ELSE [state |-> "rejected", value |-> o.err,
              lines |-> <<Line("Async/await error for", filename, Message(o.err), 0)>>]

AsyncStartLine(filename) == Line("3. ASYNC/AWAIT: Reading", filename, <<>>, 0)


(* Variant: the third await placed after the try block *)
AwaitInTry_ThirdOutside(k) == k \in 1..2

(* The awaits of demonstrateAsyncAwait that lie inside its try block *)
AwaitInTry(k) == k \in 1..3


(* Variant: demonstrateAsyncAwait() called without await *)
TimerCallback_NoAwait ==
    /\ MicrotasksEmpty
    /\ TimerReady(DelayAsyncAwait)
    /\ timers' = timers \ {DelayAsyncAwait}
    /\ LET r == Read("asyncawait", files[1], 1, "aa")
       IN  /\ inflight' = inflight \cup {r}
           /\ calls' = calls (+) SetToBag({Call(r)})
    /\ console' = console (+) BagOfSeq(<<Msg("DEMONSTRATING ASYNC/AWAIT APPROACH"),
                                         Line("3. ASYNC/AWAIT: Reading", files[1], <<>>, 0)>>)
    /\ pc' = [pc EXCEPT !["aa"] = "running", !["t2000"] = "afterAA"]
    /\ UNCHANGED <<disk, delivered, unhandled, fileList, results, i>>

(* The 2000 ms timer callback up to its first await: the synchronous part   *)
(* of demonstrateAsyncAwait.                                                *)
TimerCallback ==
    /\ MicrotasksEmpty
    /\ TimerReady(DelayAsyncAwait)
    /\ timers' = timers \ {DelayAsyncAwait}
    /\ LET r == Read("asyncawait", files[1], 1, "aa")
       IN  /\ inflight' = inflight \cup {r}
           /\ calls' = calls (+) SetToBag({Call(r)})
    /\ console' = console (+) BagOfSeq(<<Msg("DEMONSTRATING ASYNC/AWAIT APPROACH"),
                                         AsyncStartLine(files[1])>>)
    /\ pc' = [pc EXCEPT !["aa"] = "running", !["t2000"] = "awaitAA"]
    /\ UNCHANGED <<disk, delivered, unhandled, fileList, results, i>>

(* The k-th read of demonstrateAsyncAwait is over: readFileWithAsyncAwait   *)
(* and then demonstrateAsyncAwait resume, up to the next await or the end.  *)
demonstrateAsyncAwait(r) ==
    /\ MicrotasksEmpty
    /\ r \in inflight
    /\ r.cont = "aa"
    /\ LET s == readFileWithAsyncAwait(r.file)
           k == r.idx
           more == s.state = "fulfilled" /\ k < Len(files)
           next == Read("asyncawait", files[k + 1], k + 1, "aa")
           escaped == s.state = "rejected" /\ ~AwaitInTry(k)
           own == IF s.state = "fulfilled"
                  THEN <<Line("Async/Await - File preview:", "", DemoPreview(s.value), k)>>
                       \o (IF more THEN <<AsyncStartLine(files[k + 1])>>
                           ELSE <<Msg("All async/await operations completed!")>>)
                  ELSE IF escaped THEN <<>>
                       ELSE <<Line("Async/await error:", "", Message(s.value), 0)>>
       IN  /\ delivered' = delivered (+) SetToBag({Settlement("asyncawait", r.file, s)})
           /\ console' = console (+) BagOfSeq(s.lines \o own)
           /\ inflight' = (inflight \ {r}) \cup (IF more THEN {next} ELSE {})
           /\ calls' = IF more THEN calls (+) SetToBag({Call(next)}) ELSE calls
           /\ unhandled' = IF escaped THEN unhandled \cup {s.value} ELSE unhandled
           /\ pc' = [pc EXCEPT
                       !["aa"] = IF more THEN "running" ELSE "done",
                       !["t2000"] = IF more \/ @ # "awaitAA" THEN @
                                    ELSE IF escaped THEN "failed" ELSE "afterAA"]
    /\ UNCHANGED <<disk, timers, fileList, results, i>>

----------------------------------------------------------------------------
(* 4. Sequential file reading with async/await *)


(* Variant: the ellipsis appended only when the content was truncated *)
SeqPreview_OnlyWhenTruncated(content) ==
    IF Len(content) > SeqPreviewLen
    THEN Substring(content, 0, SeqPreviewLen) \o Ellipsis
    ELSE content

SeqPreview(content) == Substring(content, 0, SeqPreviewLen) \o Ellipsis


(* Variant: length taken from the preview instead of the content *)
SuccessRecord_PreviewLength(filename, content) ==
    [filename |-> filename, content |-> content,
     length |-> Len(Substring(content, 0, SeqPreviewLen) \o Ellipsis),
     preview |-> Substring(content, 0, SeqPreviewLen) \o Ellipsis]

SuccessRecord(filename, content) ==
    [filename |-> filename, content |-> content, length |-> Len(content),
     preview |-> SeqPreview(content)]

ErrorRecord(filename, error) == [filename |-> filename, error |-> Message(error)]


(* Variant: the catch block logs the failure and pushes nothing *)
Pushed_NoErrorRecord(filename, o) ==
    IF o.ok
    THEN <<[filename |-> filename, content |-> o.data.chars,
            length |-> Len(o.data.chars),
            preview |-> Substring(o.data.chars, 0, SeqPreviewLen) \o Ellipsis]>>
    ELSE <<>>

(* What one iteration of the loop pushes onto results *)
Pushed(filename, o) ==
    IF o.ok THEN <<SuccessRecord(filename, o.data.chars)>>
    ELSE <<ErrorRecord(filename, o.err)>>

IterationLine(filename, o) ==
    IF o.ok THEN Line("Successfully read", filename, <<>>, Len(o.data.chars))
    ELSE Line("Failed to read", filename, Message(o.err), 0)

LoopCondition(idx, list) == idx < Len(list)

NextIndex(idx) == idx + 1

SeqStartLine(idx, list) == Line("/: Reading", list[idx + 1], <<>>, idx + 1)

SeqRead(idx, list) == Read("sequential", list[idx + 1], idx + 1, "seq")


(* Variant: every read of the list started at once *)
SeqCall_Parallel(list) ==
    /\ fileList' = list
    /\ results' = <<>>
    /\ i' = 0
    /\ console' = console (+) SetToBag({Msg("DEMONSTRATING SEQUENTIAL FILE READING")})
    /\ inflight' = inflight
          \cup {Read("sequential", list[k], k, "seq") : k \in DOMAIN list}
    /\ calls' = calls
          (+) SetToBag({[reader |-> "sequential", file |-> list[k], idx |-> k] :
                          k \in DOMAIN list})
    /\ pc' = [pc EXCEPT !["seq"] = IF list = <<>> THEN "done" ELSE "running"]
    /\ UNCHANGED <<disk, timers, delivered, unhandled>>

(* readMultipleFilesSequentially(list) up to its first await, or to its     *)
(* return when the list is empty; the caller awaits the result.             *)
SeqCall(list) ==
    /\ fileList' = list
    /\ results' = <<>>
    /\ i' = 0
    /\ console' = console
          (+) BagOfSeq(<<Msg("DEMONSTRATING SEQUENTIAL FILE READING"),
                         Line("Reading files sequentially...", "", <<>>, Len(list))>>
                       \o (IF LoopCondition(0, list) THEN <<SeqStartLine(0, list)>>
                           ELSE <<>>))
    /\ inflight' = inflight \cup (IF LoopCondition(0, list) THEN {SeqRead(0, list)} ELSE {})
    /\ calls' = IF LoopCondition(0, list)
                THEN calls (+) SetToBag({Call(SeqRead(0, list))}) ELSE calls
    /\ pc' = [pc EXCEPT
                !["seq"] = IF LoopCondition(0, list) THEN "running" ELSE "done",
                !["t2000"] = IF @ # "afterAA" THEN @
                             ELSE IF LoopCondition(0, list) THEN "awaitSeq"
                             ELSE "afterSeq"]
    /\ UNCHANGED <<disk, timers, delivered, unhandled>>

(* The awaited read of fileList[i] is over: the rest of the iteration and   *)
(* the loop up to the next await, or to the return.                         *)
readMultipleFilesSequentially(r) ==
    /\ MicrotasksEmpty
    /\ r \in inflight
    /\ r.cont = "seq"
    /\ LET filename == fileList[i + 1]
           o == ReadFile(r.file)
           idx == NextIndex(i)
           more == LoopCondition(idx, fileList)
       IN  /\ results' = results \o Pushed(filename, o)
           /\ i' = idx
           /\ console' = console
                 (+) BagOfSeq(<<IterationLine(filename, o)>>
                              \o (IF more THEN <<SeqStartLine(idx, fileList)>> ELSE <<>>))
           /\ inflight' = (inflight \ {r}) \cup (IF more THEN {SeqRead(idx, fileList)} ELSE {})
           /\ calls' = IF more THEN calls (+) SetToBag({Call(SeqRead(idx, fileList))})
                       ELSE calls
           /\ pc' = [pc EXCEPT
                       !["seq"] = IF more THEN "running" ELSE "done",
                       !["t2000"] = IF more \/ @ # "awaitSeq" THEN @ ELSE "afterSeq"]
    /\ UNCHANGED <<disk, timers, delivered, unhandled, fileList>>

----------------------------------------------------------------------------
(* Main execution *)

main ==
    /\ pc["main"] = "idle"
    /\ console' = console (+) SetToBag({Msg("Starting Async Operations Demonstration")})
    /\ timers' = timers \cup {DelayCallbacks, DelayPromises, DelayAsyncAwait}
    /\ pc' = [pc EXCEPT !["main"] = "done"]
    /\ UNCHANGED <<disk, inflight, calls, delivered, unhandled, fileList, results, i>>

(* The timer callback resumes after `await demonstrateAsyncAwait()` *)
TimerCallSequential ==
    /\ pc["t2000"] = "afterAA"
    /\ SeqCall(files)

SummaryLine(result, index) ==
    IF "error" \in DOMAIN result /\ result.error # <<>>
    THEN Line(". : ERROR -", result.filename, result.error, index + 1)
    ELSE Line(". :  chars -", result.filename, result.preview,
              (index + 1) * 1000 + result.length)

(* The timer callback resumes after `await readMultipleFilesSequentially` *)
TimerSummary ==
    /\ pc["t2000"] = "afterSeq"
    /\ console' = console
          (+) BagOfSeq(<<Msg("SEQUENTIAL READING RESULTS:")>>
                       \o [k \in DOMAIN results |-> SummaryLine(results[k], k - 1)]
                       \o <<Msg("All async operations completed successfully!")>>)
    /\ pc' = [pc EXCEPT !["t2000"] = "done"]
    /\ UNCHANGED <<disk, timers, inflight, calls, delivered, unhandled,
                   fileList, results, i>>

Blank ==
    /\ timers = {}
    /\ inflight = {}
    /\ console = SetToBag({Msg("Project 5: Async Operations and Callbacks")})
    /\ calls = EmptyBag
    /\ delivered = EmptyBag
    /\ unhandled = {}
    /\ pc = [p \in Procs |-> "idle"]
    /\ results = <<>>
    /\ i = 0

Init ==
    /\ disk \in [FileNames -> DiskValues]
    /\ fileList = <<>>
    /\ Blank

Next ==
    \/ main
    \/ demonstrateCallbacks
    \/ \E r \in inflight : Callback1(r)
    \/ \E r \in inflight : Callback2(r)
    \/ demonstratePromises
    \/ \E r \in inflight : PromiseReaction(r)
    \/ TimerCallback
    \/ \E r \in inflight : demonstrateAsyncAwait(r)
    \/ TimerCallSequential
    \/ \E r \in inflight : readMultipleFilesSequentially(r)
    \/ TimerSummary

Spec == Init /\ [][Next]_vars

----------------------------------------------------------------------------
(* The sequential reader on its own, on any list of file names *)

SeqLists == UNION {[1..n -> FileNames] : n \in 0..MaxListLen}

InitSeq ==
    /\ disk \in [FileNames -> DiskValues]
    /\ fileList \in SeqLists
    /\ Blank

CallSequential ==
    /\ pc["seq"] = "idle"
    /\ SeqCall(fileList)

NextSeq ==
    \/ CallSequential
    \/ \E r \in inflight : readMultipleFilesSequentially(r)

SpecSeq == InitSeq /\ [][NextSeq]_vars

----------------------------------------------------------------------------
(* The three readers on their own: each is called once, on any file, and    *)
(* the caller only records what it is handed.                               *)

Called(reader) == \E c \in DOMAIN calls : c.reader = reader

CallReader(reader, filename, line) ==
    /\ ~Called(reader)
    /\ LET r == Read(reader, filename, 0, "test")
       IN  /\ inflight' = inflight \cup {r}
           /\ calls' = calls (+) SetToBag({Call(r)})
    /\ console' = console (+) SetToBag({line})
    /\ UNCHANGED <<disk, timers, delivered, unhandled, pc, fileList, results, i>>

CallCallbackReader(filename) ==
    CallReader("callback", filename, CallbackStartLine(filename))

CallPromiseReader(filename) ==
    CallReader("promise", filename, PromiseStartLine(filename))

CallAsyncAwaitReader(filename) ==
    CallReader("asyncawait", filename, AsyncStartLine(filename))

CallbackReaderDone(r) ==
    /\ r \in inflight
    /\ r.cont = "test"
    /\ r.reader = "callback"
    /\ delivered' = delivered (+) CallbackDeliveries(r, readFileWithCallback(r.file))
    /\ inflight' = inflight \ {r}
    /\ UNCHANGED <<disk, timers, console, calls, unhandled, pc, fileList, results, i>>

PromiseReaderDone(r) ==
    /\ r \in inflight
    /\ r.cont = "test"
    /\ r.reader = "promise"
    /\ LET s == readFileWithPromises(r.file)
       IN  /\ delivered' = delivered (+) SetToBag({Settlement("promise", r.file, s)})
           /\ console' = console (+) BagOfSeq(s.lines)
    /\ inflight' = inflight \ {r}
    /\ UNCHANGED <<disk, timers, calls, unhandled, pc, fileList, results, i>>

AsyncAwaitReaderDone(r) ==
    /\ r \in inflight
    /\ r.cont = "test"
    /\ r.reader = "asyncawait"
    /\ LET s == readFileWithAsyncAwait(r.file)
       IN  /\ delivered' = delivered (+) SetToBag({Settlement("asyncawait", r.file, s)})
           /\ console' = console (+) BagOfSeq(s.lines)
    /\ inflight' = inflight \ {r}
    /\ UNCHANGED <<disk, timers, calls, unhandled, pc, fileList, results, i>>

NextReaders ==
    \/ \E f \in FileNames : CallCallbackReader(f)
    \/ \E f \in FileNames : CallPromiseReader(f)
    \/ \E f \in FileNames : CallAsyncAwaitReader(f)
    \/ \E r \in inflight : CallbackReaderDone(r)
    \/ \E r \in inflight : PromiseReaderDone(r)
    \/ \E r \in inflight : AsyncAwaitReaderDone(r)

SpecReaders == Init /\ [][NextReaders]_vars

----------------------------------------------------------------------------
(* The whole program with every started read and every timer eventually     *)
(* served, over every choice of missing files.                              *)

InitLive ==
    /\ disk \in [FileNames -> {Missing, File(HelloWorld)}]
    /\ fileList = <<>>
    /\ Blank

LiveSpec == InitLive /\ [][Next]_vars /\ WF_vars(Next)

----------------------------------------------------------------------------
(* Properties *)

Exists(filename) == disk[filename].exists

Content(filename) == disk[filename].content

IsErrorRecord(rec) == "error" \in DOMAIN rec

IsSuccessRecord(rec) == {"content", "length", "preview"} \subseteq DOMAIN rec

SeqCalls(k) == Count(calls, [reader |-> "sequential", file |-> fileList[k], idx |-> k])

SeqInFlight == {r \in inflight : r.reader = "sequential"}

TagCount(tag) ==
    BagCardinality([l \in {x \in DOMAIN console : x.tag = tag} |-> console[l]])

Failed(d) == d.channel = "rejected" \/ (d.channel = "callback" /\ Truthy(d.err))

(* C1: readMultipleFilesSequentially yields one record per input file name, *)
(* in input order; the record at position k is an error record (an error    *)
(* field, no content) exactly when the read of fileList[k] failed; and once *)
(* it has returned every entry has a record and was read, whatever failed   *)
(* before it.                                                               *)
C1_OneRecordPerFile ==
    /\ Len(results) <= Len(fileList)
    /\ \A k \in DOMAIN results :
          /\ results[k].filename = fileList[k]
          /\ IsErrorRecord(results[k]) <=> ~Exists(fileList[k])
          /\ IsErrorRecord(results[k]) => ~IsSuccessRecord(results[k])
          /\ ~IsErrorRecord(results[k]) => IsSuccessRecord(results[k])
    /\ pc["seq"] = "done" =>
          /\ Len(results) = Len(fileList)
          /\ \A k \in DOMAIN fileList : SeqCalls(k) >= 1

C1_Witness ==
    /\ pc["seq"] = "done"
    /\ Len(fileList) = 3
    /\ Exists(fileList[1]) /\ ~Exists(fileList[2]) /\ Exists(fileList[3])
    /\ IsSuccessRecord(results[1])
    /\ IsErrorRecord(results[2])
    /\ IsSuccessRecord(results[3])

AllExist == \A k \in DOMAIN fileList : Exists(fileList[k])

(* C2 as stated: when every file of the list exists, the reader returns N   *)
(* success records, each with length the character count of the content and *)
(* preview the first 60 characters of the content (all of it if shorter).   *)
C2_PreviewIsPrefix ==
    (pc["seq"] = "done" /\ AllExist) =>
        /\ Len(results) = Len(fileList)
        /\ \A k \in DOMAIN results :
              /\ IsSuccessRecord(results[k])
              /\ results[k].length = Len(Content(fileList[k]))
              /\ results[k].preview =
                     SubSeq(Content(fileList[k]), 1,
                            Min(SeqPreviewLen, Len(Content(fileList[k]))))

(* C2 amended: when every file of the list exists, the reader returns N     *)
(* success records, each with length the character count of the content and *)
(* preview the first 60 characters of the content (all of it if shorter)    *)
(* followed by "...".                                                       *)
C2_PreviewIsPrefixPlusEllipsis ==
    (pc["seq"] = "done" /\ AllExist) =>
        /\ Len(results) = Len(fileList)
        /\ \A k \in DOMAIN results :
              /\ IsSuccessRecord(results[k])
              /\ results[k].length = Len(Content(fileList[k]))
              /\ results[k].preview =
                     SubSeq(Content(fileList[k]), 1,
                            Min(SeqPreviewLen, Len(Content(fileList[k]))))
                     \o <<".", ".", ".">>

C2_Witness ==
    /\ pc["seq"] = "done"
    /\ AllExist
    /\ Len(fileList) = 3
    /\ Len(Content(fileList[1])) > SeqPreviewLen
    /\ Len(Content(fileList[2])) = SeqPreviewLen
    /\ Len(Content(fileList[3])) \in 1..(SeqPreviewLen - 1)
    /\ Len(results) = 3

(* C3: the preview of every success record ends with "..." after a prefix   *)
(* of the content of at most 60 characters, truncated or not; the content   *)
(* "hello world" gives length 11 and preview "hello world...".              *)
C3_PreviewEndsWithEllipsis ==
    \A k \in DOMAIN results :
        IsSuccessRecord(results[k]) =>
            LET p == results[k].preview
                n == Len(p) - 3
            IN  /\ n >= 0
                /\ n <= SeqPreviewLen
                /\ \A j \in 1..3 : p[n + j] = "."
                /\ \A j \in 1..n : p[j] = results[k].content[j]
                /\ results[k].content = HelloWorld =>
                      /\ results[k].length = 11
                      /\ p = <<"h", "e", "l", "l", "o", " ", "w", "o", "r", "l", "d",
                               ".", ".", ".">>

C3_Witness ==
    \E k \in DOMAIN results :
        /\ IsSuccessRecord(results[k])
        /\ results[k].content = HelloWorld
        /\ Len(results[k].preview) = 14
        /\ \E j \in DOMAIN results :
              IsSuccessRecord(results[j]) /\ Len(results[j].content) > SeqPreviewLen

(* C4: a failed read surfaces only through the reader's own channel:        *)
(* readFileWithCallback calls its callback exactly once per read, with      *)
(* (err, null) on failure and (null, content) on success;                   *)
(* readFileWithPromises and readFileWithAsyncAwait reject with the I/O      *)
(* error; and in the driver no error is ever left unhandled.                *)
C4_ErrorsThroughOwnChannel ==
    /\ unhandled = {}
    /\ pc["t2000"] # "failed"
    /\ \A c \in DOMAIN calls :
          c.reader = "callback" =>
              LET got == {d \in DOMAIN delivered :
                             d.reader = "callback" /\ d.file = c.file}
                  pending == {r \in inflight :
                                 r.reader = "callback" /\ r.file = c.file}
              IN  /\ calls[c] = 1
                  /\ Cardinality(got) + Cardinality(pending) = 1
                  /\ \A d \in got : delivered[d] = 1
    /\ \A d \in DOMAIN delivered :
          /\ d.reader = "callback" =>
                /\ d.channel = "callback"
                /\ IF Exists(d.file)
                   THEN d.err = Null /\ d.data = Str(Content(d.file))
                   ELSE d.err = Error("ENOENT", d.file) /\ d.data = Null
          /\ d.reader \in {"promise", "asyncawait"} =>
                IF Exists(d.file)
                THEN d.channel = "fulfilled" /\ d.data = Str(Content(d.file))
                ELSE d.channel = "rejected" /\ d.err = Error("ENOENT", d.file)

C4_Witness ==
    /\ \A p \in Procs : pc[p] = "done"
    /\ inflight = {}
    /\ unhandled = {}
    /\ \E d \in DOMAIN delivered :
          d.reader = "callback" /\ d.err = Error("ENOENT", d.file) /\ d.data = Null
    /\ \E d \in DOMAIN delivered : d.reader = "promise" /\ d.channel = "rejected"
    /\ \E d \in DOMAIN delivered : d.reader = "asyncawait" /\ d.channel = "rejected"

(* C5: on the same file the three readers deliver the same thing: the       *)
(* file's content, unmodified, or a failure, and they fail on the same      *)
(* files.                                                                   *)
C5_ReadersAgree ==
    /\ \A d \in DOMAIN delivered :
          /\ Failed(d) <=> ~Exists(d.file)
          /\ ~Failed(d) => d.data = Str(Content(d.file))
    /\ \A d1, d2 \in DOMAIN delivered :
          d1.file = d2.file =>
              /\ Failed(d1) <=> Failed(d2)
              /\ ~Failed(d1) => d1.data = d2.data

C5_Witness ==
    \E f \in FileNames :
        /\ Exists(f)
        /\ Len(Content(f)) > 0
        /\ \A reader \in {"callback", "promise", "asyncawait"} :
              \E d \in DOMAIN delivered :
                  d.reader = reader /\ d.file = f /\ d.data = Str(Content(f))

Completed ==
    /\ \A p \in Procs : pc[p] = "done"
    /\ timers = {}
    /\ inflight = {}
    /\ Len(results) = 3
    /\ TagCount("SEQUENTIAL READING RESULTS:") = 1
    /\ TagCount("All async operations completed successfully!") = 1

(* C6: whatever files are missing, if every started read ends and every     *)
(* timer fires, the program completes and stays completed: all              *)
(* demonstrators are done, the sequential reader has returned 3 records,    *)
(* the summary was printed once and nothing is pending.                     *)
C6_AlwaysCompletes == <>[]Completed

C6_Witness ==
    /\ Completed
    /\ \A f \in FileNames : ~Exists(f)

ChainStopsAtFailure(reader) ==
    \A c \in DOMAIN calls :
        c.reader = reader => \A j \in 1..(c.idx - 1) : Exists(files[j])

(* C7: a failed read abandons the rest of its chain: after a failed read of *)
(* file k no later file of that chain is read; the final error handler of   *)
(* the promise chain and of demonstrateAsyncAwait runs once when a read of  *)
(* the chain failed and never otherwise; the completion message is logged   *)
(* only when all three reads succeeded.                                     *)
C7_FailureAbandonsChain ==
    /\ ChainStopsAtFailure("callback")
    /\ ChainStopsAtFailure("promise")
    /\ ChainStopsAtFailure("asyncawait")
    /\ TagCount("Promise chain error:") <= 1
    /\ TagCount("Async/await error:") <= 1
    /\ pc["pr"] = "done" =>
          TagCount("Promise chain error:")
              = (IF \A f \in FileNames : Exists(f) THEN 0 ELSE 1)
    /\ pc["aa"] = "done" =>
          TagCount("Async/await error:")
              = (IF \A f \in FileNames : Exists(f) THEN 0 ELSE 1)
    /\ TagCount("All promises completed successfully!") > 0 =>
          \A f \in FileNames : Exists(f)
    /\ TagCount("All async/await operations completed!") > 0 =>
          \A f \in FileNames : Exists(f)

C7_Witness ==
    /\ ~Exists(files[1])
    /\ Exists(files[2])
    /\ pc["cb"] = "done" /\ pc["pr"] = "done" /\ pc["aa"] = "done"
    /\ TagCount("Callback Error:") = 1
    /\ TagCount("Promise chain error:") = 1
    /\ TagCount("Async/await error:") = 1

(* C8: inside the 2000 ms timer callback the sequential reader starts only  *)
(* after demonstrateAsyncAwait has finished, and the summary is printed     *)
(* only after the sequential reader has processed its whole list.           *)
C8_TimerCallbackInOrder ==
    /\ (pc["seq"] # "idle" \/ Called("sequential")) => pc["aa"] = "done"
    /\ TagCount("SEQUENTIAL READING RESULTS:") > 0 =>
          /\ pc["seq"] = "done"
          /\ SeqInFlight = {}
          /\ Len(results) = Len(files)

C8_Witness ==
    /\ pc["seq"] = "running"
    /\ SeqInFlight # {}
    /\ pc["aa"] = "done"
    /\ TagCount("Async/await error:") = 1

(* C9: the demonstrators start in the order callback, promise, async/await; *)
(* nothing orders a later start after an earlier demonstrator's reads (the  *)
(* witness is a state with reads of all three in flight).                   *)
C9_StartOrder ==
    /\ pc["pr"] # "idle" => pc["cb"] # "idle"
    /\ pc["aa"] # "idle" => pc["pr"] # "idle"

C9_Witness ==
    /\ \E r \in inflight : r.reader = "callback"
    /\ \E r \in inflight : r.reader = "promise"
    /\ \E r \in inflight : r.reader = "asyncawait"

(* C10: readMultipleFilesSequentially has at most one read in flight; the   *)
(* read in flight is that of the entry after the last record appended; no   *)
(* entry is read twice, and once it has returned every entry was read       *)
(* exactly once.                                                            *)
C10_OneReadAtATime ==
    /\ Cardinality(SeqInFlight) <= 1
    /\ \A r \in SeqInFlight : r.idx = Len(results) + 1 /\ r.file = fileList[r.idx]
    /\ \A c \in DOMAIN calls :
          c.reader = "sequential" => calls[c] = 1 /\ c.idx <= Len(results) + 1
    /\ pc["seq"] = "done" => \A k \in DOMAIN fileList : SeqCalls(k) = 1

C10_Witness ==
    /\ Len(results) >= 1
    /\ IsErrorRecord(results[Len(results)])
    /\ \E r \in SeqInFlight : r.idx = Len(results) + 1

====
